---- MODULE Spec2Model ----
(***************************************************************************)
(* Client side of the video-processing application: the authenticated      *)
(* request gateway (lib/api/client.ts), the session store                  *)
(* (lib/stores/auth.ts), the route guard (ProtectedRoute.svelte), the      *)
(* job-status page (routes/video/job/[jobId]), the result page             *)
(* (routes/video/[videoId]) and the submission form                        *)
(* (VideoProcessForm.svelte, with extractVideoId of lib/api/index.ts).     *)
(*                                                                         *)
(* Execution model: one JavaScript event loop.  A handler runs             *)
(* synchronously up to its first await on a network round trip; the        *)
(* continuation after the await, together with every catch block and       *)
(* caller continuation chained on it by microtasks, runs as one step.      *)
(***************************************************************************)
EXTENDS Integers, Sequences, FiniteSets, TLC

VARIABLES
    token,      \* localStorage 'token' (NoToken when absent)
    store,      \* AuthState of the writable store
    booted,     \* the import-time auth.initialize() has run
    calls,      \* fetchWithAuth invocations that have not settled yet
    nextId,     \* sequence number of the next fetchWithAuth invocation
    outcome,    \* the store operation that settled last: the path it took
                \* and whether its promise rejected (raised to the caller)
    logoutPc,   \* logout() is suspended in its Firebase sign-out
    view,       \* the job-status page component
    grace,      \* pending setTimeout redirects armed by checkJobStatus
    navs,       \* values assigned to window.location.href, oldest first
    pageAlive,  \* the document (and its timers) has not been unloaded
    form,       \* the VideoProcessForm component
    guard,      \* the ProtectedRoute component of the displayed page
    gotos,      \* routes passed to goto() by the last step that called it,
                \* in call order
    extraction, \* an application of extractVideoId: its argument and result
    resultView  \* the result page: the video it got, what it renders and
                \* what copyContent produced

vars == <<token, store, booted, calls, nextId, outcome, logoutPc,
          view, grace, navs, pageAlive, form, guard, gotos, extraction,
          resultView>>

----------------------------------------------------------------------------
(* Bounds *)

MaxCalls == 3
MaxSections == 1

(* Program constants *)

PollIntervalMs == 3000
GraceDelayMs == 1000

----------------------------------------------------------------------------
(* Values *)

NoToken == "none"
Tokens == {"t1", "t2"}
Null == "null"
Users == {"u1"}

browser == TRUE

MsgAuth == "Authentication required. Please log in."
MsgTimeout == "Request timed out. Please try again later."
MsgNetwork == "Failed to fetch"
MsgSyntax == "Unexpected token"
MsgNoLoginWithFirebase == "authApi.loginWithFirebase is not a function"
MsgNoLoginForDevelopment == "authApi.loginForDevelopment is not a function"
MsgUrlRequired == "Please enter a YouTube URL"
MsgUrlInvalid == "Please enter a valid YouTube URL"
Details == {"quota exceeded"}

HttpOk == 200
HttpUnauthorized == 401
HttpServerError == 500
Statuses == {HttpOk, HttpUnauthorized, HttpServerError}

HttpErrorMessage(status) == "HTTP error " \o ToString(status)

\* The methods the authApi object has.
AuthApi == {"verifyToken", "getProfile", "devLogin", "handleOAuthCallback"}

\* JobStatus bodies the backend can answer a status request with.
JobBodies ==
    { [status |-> "pending",    video_id |-> "v1", error |-> Null],
      [status |-> "processing", video_id |-> "v1", error |-> Null],
      [status |-> "completed",  video_id |-> "v1", error |-> Null],
      [status |-> "failed",     video_id |-> "v1", error |-> "decode error"],
      [status |-> "failed",     video_id |-> "v1", error |-> Null] }

Owners == {"initialize", "loginWithToken", "loginDevelopment",
           "pollMount", "pollTick", "submit"}

\* The JSON bodies a 2xx answer to a call of this owner can carry.
Bodies(owner) ==
    CASE owner \in {"initialize", "loginWithToken", "loginDevelopment"} -> Users
      [] owner \in {"pollMount", "pollTick"} -> JobBodies
      [] owner = "submit" -> {"job1"}

AuthStateInitial ==
    [user |-> Null, authenticated |-> FALSE, loading |-> TRUE, error |-> Null]

Unauthenticated(err) ==
    [user |-> Null, authenticated |-> FALSE, loading |-> FALSE, error |-> err]

Authenticated(user) ==
    [user |-> user, authenticated |-> TRUE, loading |-> FALSE, error |-> Null]

\* let job = null
NoJob == [status |-> Null, video_id |-> Null, error |-> Null]

ViewInitial ==
    [life |-> "none", intervalSet |-> FALSE, intervalActive |-> FALSE,
     job |-> NoJob, error |-> Null]

FormInitial == [processing |-> FALSE, error |-> "", job |-> Null]

RouteHome == "/"
RouteLogin == "/auth/login"
RouteDashboard == "/dashboard"
JobRoute(jobId) == "/video/job/" \o jobId

\* The props the pages give their ProtectedRoute: the default ones of a
\* protected page, and those of the login-only pages.
GuardProps ==
    { [requireAuth |-> TRUE,  redirectTo |-> RouteLogin],
      [requireAuth |-> FALSE, redirectTo |-> RouteDashboard] }

\* No ProtectedRoute instance is mounted.  awaits is the id of the Gateway
\* call the instance's onMount is suspended on (0 when it is not).
GuardInitial ==
    [life |-> "none", requireAuth |-> TRUE, redirectTo |-> RouteLogin,
     initialized |-> FALSE, awaits |-> 0]

\* No application of extractVideoId is under examination.
NoExtraction == [pre |-> <<>>, x |-> <<>>, id |-> <<>>, done |-> FALSE]

\* let videoResult = $state(null)
NoVideo ==
    [output_format |-> Null, hasSections |-> FALSE, sections |-> <<>>,
     bullets |-> FALSE, paragraphs |-> FALSE, text |-> FALSE]

NotRendered == [branch |-> Null, lists |-> <<>>]

ResultViewInitial == [video |-> NoVideo, rendered |-> NotRendered, copied |-> Null]

\* The client after the modules are loaded, before any event.
InitClient ==
    /\ token \in {NoToken} \cup Tokens
    /\ store = AuthStateInitial
    /\ booted = FALSE
    /\ calls = {}
    /\ nextId = 1
    /\ outcome = [op |-> Null, via |-> Null, raised |-> FALSE]
    /\ logoutPc = FALSE
    /\ view = ViewInitial
    /\ grace = {}
    /\ navs = <<>>
    /\ pageAlive = TRUE
    /\ form = FormInitial
    /\ guard = GuardInitial
    /\ gotos = <<>>

Init ==
    /\ InitClient
    /\ extraction = NoExtraction
    /\ resultView = ResultViewInitial

----------------------------------------------------------------------------
(* lib/api/client.ts: fetchWithAuth *)

\* The synchronous head of fetchWithAuth: the token is read, the timeout is
\* armed and fetch() is started.  The record is the suspended invocation;
\* sent counts the fetch() calls it has made.
NewCall(owner) ==
    [id |-> nextId, owner |-> owner, phase |-> "fetch", status |-> 0,
     tok |-> IF browser THEN token ELSE NoToken, arg |-> Null, sent |-> 1]

CanIssue == nextId <= MaxCalls

\* The response status is 401: the token is removed before the throw.
TokenAfterStatus(status) ==
    IF status = HttpUnauthorized /\ browser THEN NoToken ELSE token

\* errorMessage of a non-2xx answer whose body parsed to errorData.
ErrorMessage(status, detail) ==
    IF detail # Null THEN detail ELSE HttpErrorMessage(status)

----------------------------------------------------------------------------
(* ProtectedRoute.svelte: the reactive part of the component *)

\* Effects that do not wait for the store to settle.
GuardRedirectWhileLoading(g, s) ==
    IF browser /\ g.life = "mounted" /\ g.initialized
    THEN IF g.requireAuth /\ ~s.authenticated THEN g.redirectTo
         ELSE IF ~g.requireAuth /\ s.authenticated THEN RouteDashboard
         ELSE Null
    ELSE Null

\* Effects that take their decision once, when initialized is set, and do
\* not follow the store afterwards.
GotosOnceAtMount(own, wrote) ==
    LET r == IF guard' # guard
             THEN GuardRedirectWhileLoading(guard', store') ELSE Null
        made == IF r = Null \/ store'.loading THEN own ELSE Append(own, r)
    IN  gotos' = IF made = <<>> THEN gotos ELSE made

\* The two $effect blocks: the route the guard passes to goto() when they
\* run against store value s, or Null when neither condition holds.
GuardRedirect(g, s) ==
    IF browser /\ g.life = "mounted" /\ g.initialized /\ ~s.loading
    THEN IF g.requireAuth /\ ~s.authenticated THEN g.redirectTo
         ELSE IF ~g.requireAuth /\ s.authenticated THEN RouteDashboard
         ELSE Null
    ELSE Null

\* The template: what the component renders against store value s.
GuardRenders(g, s) ==
    IF s.loading THEN "waiting"
    ELSE IF ~g.requireAuth \/ s.authenticated THEN "content"
    ELSE "nothing"

\* The goto() calls of a step: those of the handler itself (own), then the
\* one of the guard's effects, which run again after a step that wrote the
\* store or the guard's own state.
Gotos(own, wrote) ==
    LET r == IF wrote \/ guard' # guard
             THEN GuardRedirect(guard', store') ELSE Null
        made == IF r = Null THEN own ELSE Append(own, r)
    IN  gotos' = IF made = <<>> THEN gotos ELSE made

\* onMount resumes after its await on initialize(): initialized = true.
GuardAfter(c) ==
    IF c.owner = "initialize" /\ guard.life = "mounted" /\ guard.awaits = c.id
    THEN [guard EXCEPT !.initialized = TRUE, !.awaits = 0]
    ELSE guard

----------------------------------------------------------------------------
(* lib/stores/auth.ts: continuation of initialize() after getProfile *)

\* initialize() whose catch block leaves the persisted token in place.
InitializeSettledKeepsToken(ok, val, tok1) ==
    /\ IF ok
       THEN /\ store' = Authenticated(val)
            /\ token' = tok1
       ELSE /\ token' = tok1
            /\ store' = Unauthenticated(Null)
    /\ outcome' = [op |-> "initialize",
                   via |-> IF ok THEN "resolved" ELSE "rejected",
                   raised |-> FALSE]
    /\ UNCHANGED <<view, grace, form>>

InitializeSettled(ok, val, tok1) ==
    /\ IF ok
       THEN /\ store' = Authenticated(val)
            /\ token' = tok1
       ELSE /\ token' = NoToken
            /\ store' = Unauthenticated(Null)
    /\ outcome' = [op |-> "initialize",
                   via |-> IF ok THEN "resolved" ELSE "rejected",
                   raised |-> FALSE]
    /\ UNCHANGED <<view, grace, form>>

\* Continuation of loginWithToken(token) and of loginDevelopment() after the
\* verification call: c.arg is the token to persist.
LoginSettled(c, ok, val, tok1) ==
    /\ IF ok
       THEN /\ token' = IF browser THEN c.arg ELSE tok1
            /\ store' = Authenticated(val)
       ELSE /\ token' = tok1
            /\ store' = Unauthenticated(val)
    /\ outcome' = [op |-> c.owner,
                   via |-> IF ok THEN "resolved" ELSE "rejected",
                   raised |-> ~ok]
    /\ UNCHANGED <<view, grace, form>>

----------------------------------------------------------------------------
(* routes/video/job/[jobId]/+page.svelte: checkJobStatus after the await,  *)
(* followed, for the call made by onMount, by the rest of onMount.         *)

\* clearInterval(intervalId): a no-op while intervalId is still undefined.
ClearInterval(v) ==
    IF v.intervalSet THEN [v EXCEPT !.intervalActive = FALSE] ELSE v

\* intervalId = setInterval(checkJobStatus, 3000)
SetInterval(v) == [v EXCEPT !.intervalSet = TRUE, !.intervalActive = TRUE]

\* A checkJobStatus that keeps a completed job on display once it has one.
CheckJobStatusOkKeepsCompleted(v, status) ==
    LET v1 == IF v.job.status = "completed" THEN v ELSE [v EXCEPT !.job = status]
    IN  IF status.status \in {"completed", "failed"} THEN ClearInterval(v1) ELSE v1

CheckJobStatusOk(v, status) ==
    LET v1 == [v EXCEPT !.job = status]
    IN  IF status.status \in {"completed", "failed"} THEN ClearInterval(v1) ELSE v1

CheckJobStatusFailed(v, msg) == ClearInterval([v EXCEPT !.error = msg])

CheckJobStatusSettled(c, ok, val, tok1) ==
    LET v1 == IF ok THEN CheckJobStatusOk(view, val)
                    ELSE CheckJobStatusFailed(view, val)
    IN  /\ view' = IF c.owner = "pollMount" THEN SetInterval(v1) ELSE v1
        /\ grace' = IF ok /\ val.status = "completed"
                    THEN grace \cup {[by |-> c.id, vid |-> val.video_id]}
                    ELSE grace
        /\ token' = tok1
        /\ UNCHANGED <<store, outcome, form>>

----------------------------------------------------------------------------
(* VideoProcessForm.svelte: handleSubmit after the await *)

HandleSubmitSettled(ok, val, tok1) ==
    /\ form' = IF ok THEN [form EXCEPT !.job = val]
                     ELSE [form EXCEPT !.error = val, !.processing = FALSE]
    /\ token' = tok1
    /\ UNCHANGED <<store, outcome, view, grace>>

\* The caller's continuation of a settled call: ok with the parsed body, or
\* not ok with the message of the Error thrown.
Continue(c, ok, val, tok1) ==
    /\ CASE c.owner = "initialize" -> InitializeSettled(ok, val, tok1)
         [] c.owner \in {"loginWithToken", "loginDevelopment"} -> LoginSettled(c, ok, val, tok1)
         [] c.owner \in {"pollMount", "pollTick"} -> CheckJobStatusSettled(c, ok, val, tok1)
         [] c.owner = "submit" -> HandleSubmitSettled(ok, val, tok1)
    /\ guard' = GuardAfter(c)
    /\ Gotos(IF c.owner = "submit" /\ ok THEN <<JobRoute(val)>> ELSE <<>>,
             c.owner \in {"initialize", "loginWithToken", "loginDevelopment"})

----------------------------------------------------------------------------
(* Network events of a suspended fetchWithAuth *)

\* A gateway that answers a 401 by sending the request again.
RespondRetries(c, status) ==
    /\ pageAlive
    /\ c \in calls /\ c.phase = "fetch"
    /\ IF status = HttpUnauthorized /\ browser
       THEN calls' = (calls \ {c}) \cup {[c EXCEPT !.sent = c.sent + 1]}
       ELSE calls' = (calls \ {c}) \cup {[c EXCEPT !.phase = "body", !.status = status]}
    /\ UNCHANGED <<token, store, outcome, view, grace, form, guard, gotos>>
    /\ UNCHANGED <<booted, nextId, logoutPc, navs, pageAlive, extraction,
                   resultView>>

\* fetch() resolves with a response of this status.
Respond(c, status) ==
    /\ pageAlive
    /\ c \in calls /\ c.phase = "fetch"
    /\ IF status = HttpUnauthorized /\ browser
       THEN /\ calls' = calls \ {c}
            /\ Continue(c, FALSE, MsgAuth, TokenAfterStatus(status))
       ELSE /\ calls' = (calls \ {c}) \cup {[c EXCEPT !.phase = "body", !.status = status]}
            /\ UNCHANGED <<token, store, outcome, view, grace, form, guard, gotos>>
    /\ UNCHANGED <<booted, nextId, logoutPc, navs, pageAlive, extraction,
                   resultView>>

\* fetch() rejects: the connection failed.
NetworkFail(c) ==
    /\ pageAlive
    /\ c \in calls /\ c.phase = "fetch"
    /\ calls' = calls \ {c}
    /\ Continue(c, FALSE, MsgNetwork, token)
    /\ UNCHANGED <<booted, nextId, logoutPc, navs, pageAlive, extraction,
                   resultView>>

\* A timer that is not cleared when fetch() resolves: it also fires while
\* the body is being read.
TimeoutAnyPhase(c) ==
    /\ pageAlive
    /\ c \in calls
    /\ calls' = calls \ {c}
    /\ Continue(c, FALSE, MsgTimeout, token)
    /\ UNCHANGED <<booted, nextId, logoutPc, navs, pageAlive, extraction,
                   resultView>>

\* The timeout fires while fetch() is pending: controller.abort().
Timeout(c) ==
    /\ pageAlive
    /\ c \in calls /\ c.phase = "fetch"
    /\ calls' = calls \ {c}
    /\ Continue(c, FALSE, MsgTimeout, token)
    /\ UNCHANGED <<booted, nextId, logoutPc, navs, pageAlive, extraction,
                   resultView>>

\* response.json() resolves.
BodyParsed(c) ==
    /\ pageAlive
    /\ c \in calls /\ c.phase = "body"
    /\ calls' = calls \ {c}
    /\ IF c.status = HttpOk
       THEN \E body \in Bodies(c.owner) : Continue(c, TRUE, body, token)
       ELSE \E detail \in Details \cup {Null} :
                Continue(c, FALSE, ErrorMessage(c.status, detail), token)
    /\ UNCHANGED <<booted, nextId, logoutPc, navs, pageAlive, extraction,
                   resultView>>

\* response.json() rejects: the body is not JSON.
BodyUnparseable(c) ==
    /\ pageAlive
    /\ c \in calls /\ c.phase = "body"
    /\ calls' = calls \ {c}
    /\ Continue(c, FALSE,
                IF c.status = HttpOk THEN MsgSyntax ELSE HttpErrorMessage(c.status),
                token)
    /\ UNCHANGED <<booted, nextId, logoutPc, navs, pageAlive, extraction,
                   resultView>>

----------------------------------------------------------------------------
(* lib/stores/auth.ts: the synchronous heads of the store operations *)

\* initialize() without its early return: the profile request is issued
\* whether or not a token is persisted.
InitializeBodyAlwaysFetches ==
    /\ browser
    /\ CanIssue
    /\ store' = [store EXCEPT !.loading = TRUE]
    /\ calls' = calls \cup {NewCall("initialize")}
    /\ nextId' = nextId + 1
    /\ UNCHANGED outcome
    /\ UNCHANGED <<token, logoutPc, view, grace, navs, pageAlive, form,
                   extraction, resultView>>

\* initialize(): the token is read; without one the store settles at once,
\* with one the profile request is issued.
InitializeBody ==
    /\ browser
    /\ IF token = NoToken
       THEN /\ store' = Unauthenticated(Null)
            /\ outcome' = [op |-> "initialize", via |-> "no-token", raised |-> FALSE]
            /\ UNCHANGED <<calls, nextId>>
       ELSE /\ CanIssue
            /\ store' = [store EXCEPT !.loading = TRUE]
            /\ calls' = calls \cup {NewCall("initialize")}
            /\ nextId' = nextId + 1
            /\ UNCHANGED outcome
    /\ UNCHANGED <<token, logoutPc, view, grace, navs, pageAlive, form,
                   extraction, resultView>>

\* if (browser) auth.initialize() at module import.
ImportInitialize ==
    /\ ~booted
    /\ booted' = TRUE
    /\ InitializeBody
    /\ UNCHANGED guard
    /\ Gotos(<<>>, TRUE)

\* A page wrapped in <ProtectedRoute {...p}> is displayed.  onMount:
\* initialize auth if not already done, awaited; then initialized = true.
GuardMount(p) ==
    /\ booted /\ pageAlive
    /\ guard.life = "none"
    /\ UNCHANGED booted
    /\ IF ~store.authenticated /\ ~store.loading
       THEN /\ InitializeBody
            /\ guard' = [life |-> "mounted", requireAuth |-> p.requireAuth,
                         redirectTo |-> p.redirectTo,
                         initialized |-> (calls' = calls),
                         awaits |-> IF calls' = calls THEN 0 ELSE nextId]
            /\ Gotos(<<>>, TRUE)
       ELSE /\ guard' = [life |-> "mounted", requireAuth |-> p.requireAuth,
                         redirectTo |-> p.redirectTo,
                         initialized |-> TRUE, awaits |-> 0]
            /\ UNCHANGED <<token, store, calls, nextId, outcome, logoutPc,
                           view, grace, navs, pageAlive, form, extraction,
                           resultView>>
            /\ Gotos(<<>>, FALSE)

\* ProtectedRoute.onMount: initialize auth if not already done.
GuardInitialize ==
    \E p \in GuardProps : GuardMount(p) /\ ~store.authenticated /\ ~store.loading

\* The page is left: the component is destroyed, its effects with it.
GuardUnmount ==
    /\ pageAlive
    /\ guard.life = "mounted"
    /\ guard' = GuardInitial
    /\ UNCHANGED <<token, store, booted, calls, nextId, outcome, logoutPc,
                   view, grace, navs, pageAlive, form, gotos, extraction,
                   resultView>>

\* A login operation that verifies through authApi[method]: when authApi has
\* no such method the call expression throws a TypeError inside the try
\* block, before any request, and the catch block settles the store.
LoginVia(api, owner, method, tok, msgMissing) ==
    /\ booted /\ pageAlive
    /\ IF method \in api
       THEN /\ CanIssue
            /\ store' = [store EXCEPT !.loading = TRUE, !.error = Null]
            /\ calls' = calls \cup {[NewCall(owner) EXCEPT !.arg = tok]}
            /\ nextId' = nextId + 1
            /\ UNCHANGED outcome
       ELSE /\ store' = Unauthenticated(msgMissing)
            /\ outcome' = [op |-> owner, via |-> "no-method", raised |-> TRUE]
            /\ UNCHANGED <<calls, nextId>>
    /\ UNCHANGED <<token, booted, logoutPc, view, grace, navs, pageAlive, form,
                   guard, extraction, resultView>>
    /\ Gotos(<<>>, TRUE)

\* The login operations over the authApi of lib/api/index.ts.
LoginBody(owner, method, tok, msgMissing) ==
    LoginVia(AuthApi, owner, method, tok, msgMissing)

LoginWithToken(tok) ==
    LoginBody("loginWithToken", "loginWithFirebase", tok, MsgNoLoginWithFirebase)

LoginDevelopment ==
    LoginBody("loginDevelopment", "loginForDevelopment", "dev-token",
              MsgNoLoginForDevelopment)

\* logout() up to its await on the Firebase sign-out.
LogoutStart ==
    /\ booted /\ pageAlive /\ ~logoutPc
    /\ token' = IF browser THEN NoToken ELSE token
    /\ logoutPc' = TRUE
    /\ UNCHANGED <<store, booted, calls, nextId, outcome, view, grace, navs,
                   pageAlive, form, guard, gotos, extraction, resultView>>

\* logout() that merges {user: null, authenticated: false} into the store
\* instead of replacing its value.
LogoutFinishMerges ==
    /\ pageAlive /\ logoutPc
    /\ logoutPc' = FALSE
    /\ store' = [store EXCEPT !.user = Null, !.authenticated = FALSE]
    /\ outcome' = [op |-> "logout", via |-> "resolved", raised |-> FALSE]
    /\ UNCHANGED <<token, booted, calls, nextId, view, grace, navs, pageAlive,
                   form, guard, extraction, resultView>>
    /\ Gotos(<<RouteHome>>, TRUE)

\* logout() after the sign-out: the store is set and goto('/') is called.
LogoutFinish ==
    /\ pageAlive /\ logoutPc
    /\ logoutPc' = FALSE
    /\ store' = Unauthenticated(Null)
    /\ outcome' = [op |-> "logout", via |-> "resolved", raised |-> FALSE]
    /\ UNCHANGED <<token, booted, calls, nextId, view, grace, navs, pageAlive,
                   form, guard, extraction, resultView>>
    /\ Gotos(<<RouteHome>>, TRUE)

SetError(msg) ==
    /\ booted /\ pageAlive
    /\ store' = [store EXCEPT !.error = msg]
    /\ UNCHANGED <<token, booted, calls, nextId, outcome, logoutPc, view, grace,
                   navs, pageAlive, form, guard, extraction, resultView>>
    /\ Gotos(<<>>, TRUE)

ClearError ==
    /\ booted /\ pageAlive
    /\ store' = [store EXCEPT !.error = Null]
    /\ UNCHANGED <<token, booted, calls, nextId, outcome, logoutPc, view, grace,
                   navs, pageAlive, form, guard, extraction, resultView>>
    /\ Gotos(<<>>, TRUE)

----------------------------------------------------------------------------
(* routes/video/job/[jobId]/+page.svelte: the job-status page *)

\* onMount up to the await inside its first checkJobStatus().
MountJobView ==
    /\ booted /\ pageAlive /\ CanIssue
    /\ view.life = "none"
    /\ view' = [view EXCEPT !.life = "mounted"]
    /\ calls' = calls \cup {NewCall("pollMount")}
    /\ nextId' = nextId + 1
    /\ UNCHANGED <<token, store, booted, outcome, logoutPc, grace, navs,
                   pageAlive, form, guard, gotos, extraction, resultView>>

\* The interval fires: checkJobStatus up to its await.  A redirect timer
\* armed no later than the interval is due before the interval's next tick.
Tick ==
    /\ pageAlive /\ CanIssue
    /\ view.intervalActive
    /\ (GraceDelayMs < PollIntervalMs) => (grace = {})
    /\ calls' = calls \cup {NewCall("pollTick")}
    /\ nextId' = nextId + 1
    /\ UNCHANGED <<token, store, booted, outcome, logoutPc, view, grace, navs,
                   pageAlive, form, guard, gotos, extraction, resultView>>

\* onDestroy: if (intervalId) clearInterval(intervalId).
DestroyJobView ==
    /\ pageAlive
    /\ view.life = "mounted"
    /\ view' = [ClearInterval(view) EXCEPT !.life = "destroyed"]
    /\ UNCHANGED <<token, store, booted, calls, nextId, outcome, logoutPc, grace,
                   navs, pageAlive, form, guard, gotos, extraction, resultView>>

\* A redirect to the result page keyed by the id of the job.
GraceFireByJobId(g) ==
    /\ pageAlive
    /\ g \in grace
    /\ grace' = grace \ {g}
    /\ navs' = Append(navs, "job1")
    /\ UNCHANGED <<token, store, booted, calls, nextId, outcome, logoutPc, view,
                   pageAlive, form, guard, gotos, extraction, resultView>>

\* The redirect timer fires: window.location.href = `/video/${video_id}`.
GraceFire(g) ==
    /\ pageAlive
    /\ g \in grace
    /\ grace' = grace \ {g}
    /\ navs' = Append(navs, g.vid)
    /\ UNCHANGED <<token, store, booted, calls, nextId, outcome, logoutPc, view,
                   pageAlive, form, guard, gotos, extraction, resultView>>

\* The navigation started by an assignment to location.href commits: the
\* document is unloaded, with its timers and pending continuations.
Unload ==
    /\ pageAlive
    /\ navs # <<>>
    /\ pageAlive' = FALSE
    /\ UNCHANGED <<token, store, booted, calls, nextId, outcome, logoutPc, view,
                   grace, navs, form, guard, gotos, extraction, resultView>>

----------------------------------------------------------------------------
(* VideoProcessForm.svelte and lib/api/index.ts: submission *)

\* Strings are taken apart into characters, as a regular expression sees
\* them.
LitYoutubeCom == <<"y", "o", "u", "t", "u", "b", "e", ".", "c", "o", "m", "/">>
LitYoutuBe == <<"y", "o", "u", "t", "u", ".", "b", "e", "/">>
LitWatch == <<"w", "a", "t", "c", "h", "?", "v", "=">>
LitEmbed == <<"e", "m", "b", "e", "d", "/">>
LitEmbedShort == <<"e", "/">>
LitV == <<"v", "/">>
LitVParam == <<"v", "=">>
LitHttps == <<"h", "t", "t", "p", "s", ":", "/", "/">>
LitHttp == <<"h", "t", "t", "p", ":", "/", "/">>
LitWww == <<"w", "w", "w", ".">>

\* {11}: the length both regular expressions give a video id.
IdLen == 11

\* [a-zA-Z0-9_-]
IdClass ==
    {"a", "b", "c", "d", "e", "f", "g", "h", "i", "j", "k", "l", "m",
     "n", "o", "p", "q", "r", "s", "t", "u", "v", "w", "x", "y", "z",
     "A", "B", "C", "D", "E", "F", "G", "H", "I", "J", "K", "L", "M",
     "N", "O", "P", "Q", "R", "S", "T", "U", "V", "W", "X", "Y", "Z",
     "0", "1", "2", "3", "4", "5", "6", "7", "8", "9", "_", "-"}

\* The complement of [^"&?\/\s]
ExtractExcluded == {"\"", "&", "?", "/", " "}

SampleId == <<"d", "Q", "w", "4", "w", "9", "W", "g", "X", "c", "Q">>

\* The characters put together again.
RECURSIVE Text(_)
Text(chars) == IF chars = <<>> THEN "" ELSE Head(chars) \o Text(Tail(chars))

\* s continues with lit at position i.
HasAt(s, i, lit) ==
    /\ i + Len(lit) - 1 <= Len(s)
    /\ SubSeq(s, i, i + Len(lit) - 1) = lit

SetMax(S) == CHOOSE m \in S : \A n \in S : n <= m
SetMin(S) == CHOOSE m \in S : \A n \in S : m <= n

\* What the user typed into the form.
UrlInputs ==
    {<<>>, LitHttps \o LitWww \o LitYoutubeCom \o LitWatch \o SampleId, SampleId}

\* /^(?:https?:\/\/)?(?:www\.)?(?:youtube\.com\/(?:watch\?v=|embed\/)|youtu\.be\/)
\*  ([a-zA-Z0-9_-]{11})$/.test(url)
isValidYoutubeUrl(url) ==
    LET Drop(s, lit) == SubSeq(s, Len(lit) + 1, Len(s))
        s1 == IF HasAt(url, 1, LitHttps) THEN Drop(url, LitHttps)
              ELSE IF HasAt(url, 1, LitHttp) THEN Drop(url, LitHttp)
              ELSE url
        s2 == IF HasAt(s1, 1, LitWww) THEN Drop(s1, LitWww) ELSE s1
        Shape(lit) ==
            /\ HasAt(s2, 1, lit)
            /\ Len(s2) = Len(lit) + IdLen
            /\ \A k \in (Len(lit) + 1)..Len(s2) : s2[k] \in IdClass
    IN  \/ Shape(LitYoutubeCom \o LitWatch)
        \/ Shape(LitYoutubeCom \o LitEmbed)
        \/ Shape(LitYoutuBe)

\* ([^"&?\/\s]{11}) matches at position p.
CaptureOk(s, p) ==
    /\ p + IdLen - 1 <= Len(s)
    /\ \A k \in p..(p + IdLen - 1) : s[k] \notin ExtractExcluded

\* [^\/]+\/.+\/ from position q, then the capture: where the capture
\* starts, the greedy .+ taking the longest stretch first; 0 without match.
MatchPath(s, q) ==
    LET first == {j \in (q + 1)..Len(s) :
                    s[j] = "/" /\ \A m \in q..(j - 1) : s[m] # "/"}
        ends == {k \in 1..Len(s) :
                    /\ \E j \in first : k >= j + 2
                    /\ s[k] = "/"
                    /\ CaptureOk(s, k + 1)}
    IN  IF ends = {} THEN 0 ELSE SetMax(ends) + 1

\* (?:v|e(?:mbed)?)\/ from position q, then the capture.
MatchEmbed(s, q) ==
    IF HasAt(s, q, LitV) /\ CaptureOk(s, q + Len(LitV)) THEN q + Len(LitV)
    ELSE IF HasAt(s, q, LitEmbed) /\ CaptureOk(s, q + Len(LitEmbed))
    THEN q + Len(LitEmbed)
    ELSE IF HasAt(s, q, LitEmbedShort) /\ CaptureOk(s, q + Len(LitEmbedShort))
    THEN q + Len(LitEmbedShort)
    ELSE 0

\* .*[?&]v= from position q, then the capture, the greedy .* taking the
\* longest stretch first.
MatchParam(s, q) ==
    LET at == {k \in q..Len(s) :
                  /\ s[k] \in {"?", "&"}
                  /\ HasAt(s, k + 1, LitVParam)
                  /\ CaptureOk(s, k + 1 + Len(LitVParam))}
    IN  IF at = {} THEN 0 ELSE SetMax(at) + 1 + Len(LitVParam)

\* The regular expression tried at position i: where its capture starts,
\* the alternatives taken in their order; 0 when it does not match there.
MatchAt(s, i) ==
    IF HasAt(s, i, LitYoutubeCom)
    THEN LET q == i + Len(LitYoutubeCom)
         IN  IF MatchPath(s, q) # 0 THEN MatchPath(s, q)
             ELSE IF MatchEmbed(s, q) # 0 THEN MatchEmbed(s, q)
             ELSE MatchParam(s, q)
    ELSE IF HasAt(s, i, LitYoutuBe) /\ CaptureOk(s, i + Len(LitYoutuBe))
    THEN i + Len(LitYoutuBe)
    ELSE 0

\* extractVideoId that hands its argument back.
extractVideoIdVerbatim(url) == url

\* url.match(regex): the leftmost match; its capture group, or the url.
extractVideoId(url) ==
    LET starts == {i \in 1..Len(url) : MatchAt(url, i) # 0}
    IN  IF starts = {} THEN url
        ELSE SubSeq(url, MatchAt(url, SetMin(starts)),
                    MatchAt(url, SetMin(starts)) + IdLen - 1)

\* handleSubmit up to the await on videoApi.processVideo.
HandleSubmit(url) ==
    /\ booted /\ pageAlive
    /\ ~form.processing
    /\ IF url = <<>>
       THEN /\ form' = [form EXCEPT !.error = MsgUrlRequired]
            /\ UNCHANGED <<calls, nextId>>
       ELSE IF ~isValidYoutubeUrl(url)
       THEN /\ form' = [form EXCEPT !.error = MsgUrlInvalid]
            /\ UNCHANGED <<calls, nextId>>
       ELSE /\ CanIssue
            /\ form' = [form EXCEPT !.error = "", !.processing = TRUE]
            /\ calls' = calls \cup {[NewCall("submit") EXCEPT !.arg = Text(extractVideoId(url))]}
            /\ nextId' = nextId + 1
    /\ UNCHANGED <<token, store, booted, outcome, logoutPc, view, grace, navs,
                   pageAlive, guard, gotos, extraction, resultView>>

----------------------------------------------------------------------------
(* lib/api/index.ts: extractVideoId applied to the URL shapes *)

\* Characters the examined video ids are made of.
IdSample == {"v", "-"}

\* Every id of IdLen characters over the sample.
VideoIds == [1..IdLen -> IdSample]

\* What precedes the id: the three URL shapes, with and without scheme
\* and host prefix, and nothing (the bare id).
ExtractPrefixes ==
    {scheme \o shape :
        scheme \in {<<>>, LitHttps \o LitWww},
        shape \in {LitYoutubeCom \o LitWatch, LitYoutubeCom \o LitEmbed, LitYoutuBe}}
    \cup {<<>>}

InitExtract ==
    /\ InitClient
    /\ resultView = ResultViewInitial
    /\ \E pre \in ExtractPrefixes, x \in VideoIds :
           extraction = [pre |-> pre, x |-> x, id |-> <<>>, done |-> FALSE]

\* extractVideoId(pre + x)
Extract ==
    /\ ~extraction.done
    /\ extraction.x # <<>>
    /\ extraction' = [extraction EXCEPT
                         !.id = extractVideoId(extraction.pre \o extraction.x),
                         !.done = TRUE]
    /\ UNCHANGED <<token, store, booted, calls, nextId, outcome, logoutPc, view,
                   grace, navs, pageAlive, form, guard, gotos, resultView>>

SpecExtract == InitExtract /\ [][Extract]_vars

----------------------------------------------------------------------------
(* routes/video/[videoId]/+page.svelte: the result page *)

Formats == {"step_by_step", "bullet_points", "podcast_article", "summary"}

Structured == {"step_by_step", "bullet_points", "podcast_article"}

\* A section of content.sections is the set of list fields it carries.
ListFields == {"steps", "bullets", "paragraphs"}

SectionLists == UNION {[1..n -> SUBSET ListFields] : n \in 0..MaxSections}

\* A ProcessedVideo by the fields of its content that are present.
Videos ==
    {v \in [output_format : Formats, hasSections : BOOLEAN,
            sections : SectionLists, bullets : BOOLEAN, paragraphs : BOOLEAN,
            text : BOOLEAN] :
        ~v.hasSections => v.sections = <<>>}

\* The list the branch of this format reads from each section.
SectionList(format) ==
    CASE format = "step_by_step" -> "steps"
      [] format = "bullet_points" -> "bullets"
      [] format = "podcast_article" -> "paragraphs"

\* content has the flat list of this format.
HasFlat(v) ==
    \/ v.output_format = "bullet_points" /\ v.bullets
    \/ v.output_format = "podcast_article" /\ v.paragraphs

\* Some section lacks the list the format's branch reads.
LacksSectionList(v) ==
    /\ v.output_format \in Structured
    /\ v.hasSections
    /\ \E i \in 1..Len(v.sections) : SectionList(v.output_format) \notin v.sections[i]

\* The template: the branch rendered and, for the sections branch, what
\* the inner {#each} of every section renders (an absent list renders as
\* an empty one).
Render(v) ==
    IF v.output_format \in Structured
    THEN IF v.hasSections
         THEN [branch |-> "sections",
               lists |-> [i \in 1..Len(v.sections) |->
                            IF SectionList(v.output_format) \in v.sections[i]
                            THEN "items" ELSE "empty"]]
         ELSE IF HasFlat(v) THEN [branch |-> "flat", lists |-> <<>>]
         ELSE [branch |-> "raw-json", lists |-> <<>>]
    ELSE [branch |-> "raw-json", lists |-> <<>>]

\* copyContent(): the text it builds, or the TypeError of calling forEach
\* on the absent list of a section.
CopyContent(v) ==
    IF v.output_format \in Structured
    THEN IF v.hasSections
         THEN IF LacksSectionList(v) THEN "TypeError" ELSE "sections"
         ELSE IF HasFlat(v) THEN "flat"
         ELSE "raw-json"
    ELSE IF v.text THEN "text" ELSE "raw-json"

InitResult ==
    /\ InitClient
    /\ extraction = NoExtraction
    /\ \E v \in Videos :
           resultView = [video |-> v, rendered |-> NotRendered, copied |-> Null]

\* videoResult is set: the template renders it.
RenderResult ==
    /\ resultView.video # NoVideo
    /\ resultView.rendered = NotRendered
    /\ resultView' = [resultView EXCEPT !.rendered = Render(resultView.video)]
    /\ UNCHANGED <<token, store, booted, calls, nextId, outcome, logoutPc, view,
                   grace, navs, pageAlive, form, guard, gotos, extraction>>

\* The copy button is clicked.
CopyClicked ==
    /\ resultView.rendered # NotRendered
    /\ resultView.copied = Null
    /\ resultView' = [resultView EXCEPT !.copied = CopyContent(resultView.video)]
    /\ UNCHANGED <<token, store, booted, calls, nextId, outcome, logoutPc, view,
                   grace, navs, pageAlive, form, guard, gotos, extraction>>

ResultNext == RenderResult \/ CopyClicked

SpecResult == InitResult /\ [][ResultNext]_vars

----------------------------------------------------------------------------
(* routes/video/job/[jobId]/+page.svelte: the template *)

MsgUnknown == "An unknown error occurred"

\* The message the template shows: the error panel comes first, the panel
\* of a failed job only without an error.
Surfaced(v) ==
    IF v.error # Null THEN v.error
    ELSE IF v.job # NoJob /\ v.job.status = "failed"
    THEN IF v.job.error # Null THEN v.job.error ELSE MsgUnknown
    ELSE Null

----------------------------------------------------------------------------

ErrorInputs == {"Authentication failed. Please try again."}

\* Network events.
GatewayNext ==
    \/ \E c \in calls, status \in Statuses : Respond(c, status)
    \/ \E c \in calls : NetworkFail(c)
    \/ \E c \in calls : Timeout(c)
    \/ \E c \in calls : BodyParsed(c)
    \/ \E c \in calls : BodyUnparseable(c)

\* Operations of the session store.
SessionNext ==
    \/ ImportInitialize
    \/ \E tok \in Tokens : LoginWithToken(tok)
    \/ LoginDevelopment
    \/ LogoutStart
    \/ LogoutFinish
    \/ \E msg \in ErrorInputs : SetError(msg)
    \/ ClearError

\* Events of the job-status page.
JobViewNext ==
    \/ MountJobView
    \/ Tick
    \/ DestroyJobView
    \/ \E g \in grace : GraceFire(g)
    \/ Unload

FormNext == \E url \in UrlInputs : HandleSubmit(url)

\* Pages wrapped in a ProtectedRoute are displayed and left.
GuardNext ==
    \/ \E p \in GuardProps : GuardMount(p)
    \/ GuardUnmount

\* The whole client.
Next == SessionNext \/ GuardNext \/ JobViewNext \/ FormNext \/ GatewayNext

Spec == Init /\ [][Next]_vars

\* The job-status page on its own: the store is only initialised at import.
JobNext == ImportInitialize \/ JobViewNext \/ GatewayNext

SpecJob == Init /\ [][JobNext]_vars

\* The session store with the Gateway calls of a page around it: the first
\* status request of the job-status page.
AuthNext == SessionNext \/ MountJobView \/ GatewayNext

SpecAuth == Init /\ [][AuthNext]_vars

\* The session store and the submission form.
SubmitNext == SessionNext \/ FormNext \/ GatewayNext

SpecSubmit == Init /\ [][SubmitNext]_vars

\* The session store and the route guard of the displayed page.
GuardedNext == SessionNext \/ GuardNext \/ GatewayNext

SpecGuard == Init /\ [][GuardedNext]_vars

----------------------------------------------------------------------------
(* Properties *)

\* A status request (GET /youtube/job-status/{jobId}) is issued in this step.
StatusRequestIssued == \E c \in calls' \ calls : c.owner \in {"pollMount", "pollTick"}

\* A submission (POST /youtube/process/{videoId}) is issued in this step.
SubmitRequestIssued == \E c \in calls' \ calls : c.owner = "submit"

\* This step settles call c with a failure.
Fails(c) ==
    \/ Respond(c, HttpUnauthorized)
    \/ NetworkFail(c)
    \/ Timeout(c)
    \/ BodyUnparseable(c)
    \/ (c.status # HttpOk /\ BodyParsed(c))

\* C1: once the job-status view has been torn down, no step issues a
\* job-status request.
C1_NoStatusRequestAfterTeardown ==
    [][view.life = "destroyed" => ~StatusRequestIssued]_vars

\* C2: every step in which a Gateway call receives HTTP 401 ends with the
\* persisted token absent and the store unauthenticated.
C2_UnauthorizedInvalidatesSession ==
    [][\A c \in calls :
          Respond(c, HttpUnauthorized) =>
              (token' = NoToken /\ ~store'.authenticated)]_vars

\* C3: in every reachable state, an authenticated store has a user and a
\* persisted token.
C3_AuthenticatedHasUserAndToken ==
    store.authenticated => (store.user # Null /\ token # NoToken)

\* C4: once a completed response has been processed (its redirect is pending
\* or done), no step issues a status request and the redirect to the result
\* view is triggered at most once.
C4_CompletedStopsPollingOneRedirect ==
    [][(grace # {} \/ navs # <<>>) =>
          (~StatusRequestIssued /\ Cardinality(grace') + Len(navs') <= 1)]_vars

\* C5: while the view shows a failed job (a failed response was processed),
\* no step issues a status request.
C5_FailedStopsPolling ==
    [][view.job.status = "failed" => ~StatusRequestIssued]_vars

\* C6: once a status request has failed at the Gateway (the view's error is
\* set), no step issues a status request.
C6_GatewayFailureStopsPolling ==
    [][view.error # Null => ~StatusRequestIssued]_vars

\* C7: no step issues a submission while the store reports
\* authenticated = false.
C7_NoSubmitWhileUnauthenticated ==
    [][~store.authenticated => ~SubmitRequestIssued]_vars

\* C8: loginWithToken(token) verifies the token with the backend: the call
\* issues a verification request carrying the token, and it is the answer
\* to that request that settles the store.
C8_LoginWithTokenAsksBackend ==
    [][\A tok \in Tokens :
          LoginWithToken(tok) =>
              (/\ \E c \in calls' \ calls : c.owner = "loginWithToken" /\ c.arg = tok
               /\ store'.loading)]_vars

\* C9: every step in which the profile request of initialize() fails (401
\* included) ends with the persisted token removed, the store settled to
\* {user: null, authenticated: false, loading: false, error: null} and the
\* promise of initialize() resolved, not rejected.
C9_InitializeSwallowsFailure ==
    [][\A c \in calls :
          (c.owner = "initialize" /\ Fails(c)) =>
              (/\ token' = NoToken
               /\ store' = Unauthenticated(Null)
               /\ outcome' = [op |-> "initialize", via |-> "rejected",
                              raised |-> FALSE])]_vars

\* C9 witness: initialize() has settled through its catch block.
C9_Witness ==
    /\ outcome = [op |-> "initialize", via |-> "rejected", raised |-> FALSE]
    /\ token = NoToken
    /\ store = Unauthenticated(Null)

\* C10: every initialize() step taken while no token is persisted settles
\* the store to {user: null, authenticated: false, loading: false,
\* error: null} and issues no request.
C10_InitializeWithoutToken ==
    [][((ImportInitialize \/ GuardInitialize) /\ token = NoToken) =>
          (/\ store' = Unauthenticated(Null)
           /\ calls' = calls
           /\ nextId' = nextId)]_vars

\* C10 witness: initialize() has settled without a token and no request
\* has ever been issued.
C10_Witness ==
    /\ outcome = [op |-> "initialize", via |-> "no-token", raised |-> FALSE]
    /\ store = Unauthenticated(Null)
    /\ token = NoToken
    /\ nextId = 1
    /\ calls = {}

\* The last route passed to goto() in this step is one of the guard's.
GuardRedirected ==
    /\ gotos' # gotos
    /\ gotos'[Len(gotos')] \in {p.redirectTo : p \in GuardProps} \cup {RouteDashboard}

\* C11: every logout() ends with the persisted token cleared, the store
\* {user: null, authenticated: false, loading: false, error: null} and
\* goto('/') called; a logout() called on a store that is already in that
\* state, with no token persisted, changes neither the store nor the token.
C11_LogoutIdempotent ==
    [][/\ LogoutFinish =>
              (/\ token' = NoToken
               /\ store' = Unauthenticated(Null)
               /\ gotos' # <<>> /\ gotos'[1] = RouteHome)
       /\ ((LogoutStart \/ LogoutFinish)
               /\ store = Unauthenticated(Null) /\ token = NoToken) =>
              (store' = store /\ token' = token)]_vars

\* C11 witness: a logout() has finished, home was navigated to, and a
\* second logout() is running on the logged-out store.
C11_Witness ==
    /\ outcome.op = "logout"
    /\ logoutPc
    /\ store = Unauthenticated(Null)
    /\ token = NoToken
    /\ gotos # <<>> /\ gotos[1] = RouteHome

\* C12: after every step that leaves a guard mounted while the store has
\* loading = true, the guard renders the waiting state and the step made no
\* guard redirect; a requireAuth guard renders its content only with
\* loading = false and authenticated = true.
C12_GuardWaitsWhileLoading ==
    [][guard'.life = "mounted" =>
          (/\ store'.loading =>
                  (GuardRenders(guard', store') = "waiting" /\ ~GuardRedirected)
           /\ (guard'.requireAuth /\ GuardRenders(guard', store') = "content") =>
                  (~store'.loading /\ store'.authenticated))]_vars

\* C12 witness: a requireAuth guard whose onMount has finished shows the
\* waiting state while the store is loading, and nothing was redirected.
C12_Witness ==
    /\ guard.life = "mounted" /\ guard.initialized /\ guard.requireAuth
    /\ store.loading
    /\ GuardRenders(guard, store) = "waiting"
    /\ gotos = <<>>

Settles(c) == c \in calls /\ \A d \in calls' : d.id # c.id

\* The messages of RequestFailed: the body's detail, else HTTP error <status>.
RequestFailedMessages == Details \cup {HttpErrorMessage(st) : st \in Statuses}

Poll(c) == c.owner \in {"pollMount", "pollTick"}

\* C14: seen from the caller checkJobStatus, whose catch block stores the
\* message: a call whose timer fires fails with the Timeout message and not
\* with a RequestFailed one; a call settled after a non-2xx response (401
\* included) does not fail with the Timeout message.
C14_TimeoutDistinctFromHttpFailure ==
    [][\A c \in calls :
          Poll(c) =>
             (/\ Timeout(c) =>
                     (view'.error = MsgTimeout
                      /\ view'.error \notin RequestFailedMessages)
              /\ (Settles(c) /\ (c.status \notin {0, HttpOk}
                                  \/ Respond(c, HttpUnauthorized))) =>
                     view'.error # MsgTimeout)]_vars

\* C14 witness: the page shows the Timeout message of a status request
\* whose timer fired.
C14_Witness ==
    /\ view.life = "mounted"
    /\ view.error = MsgTimeout

\* C15: every failing status request reaches checkJobStatus with a
\* message of the taxonomy: Timeout, AuthenticationRequired (exactly when
\* the status is 401) or RequestFailed(detail or HTTP error <status>).
C15_FailuresWithinTaxonomy ==
    [][\A c \in calls :
          (Poll(c) /\ Fails(c)) =>
             (/\ view'.error \in {MsgTimeout, MsgAuth} \cup RequestFailedMessages
              /\ (view'.error = MsgAuth) <=> Respond(c, HttpUnauthorized))]_vars

\* C16: every suspended invocation has made exactly one fetch(); a step
\* that starts an invocation adds exactly one request, whatever is in
\* flight; a step in which a call receives 401 removes that call and
\* neither adds nor changes any other.
C16_OneRequestPerCall ==
    [][/\ \A c \in calls' : c.sent = 1
       /\ nextId' # nextId =>
              (/\ nextId' = nextId + 1
               /\ Cardinality(calls') = Cardinality(calls) + 1
               /\ \E c \in calls' \ calls :
                      c.id = nextId /\ c.phase = "fetch" /\ calls' = calls \cup {c})
       /\ \A c \in calls :
              Respond(c, HttpUnauthorized) =>
                  (calls' = calls \ {c} /\ nextId' = nextId)]_vars

\* C16 witness: a status request was answered 401 while an identical one
\* is still in flight, sent once.
C16_Witness ==
    /\ view.error = MsgAuth
    /\ \E c \in calls : c.owner = "pollTick" /\ c.phase = "fetch" /\ c.sent = 1

\* C17: a submit of a non-empty input that matches none of the URL shapes
\* is not rejected: the request is issued with the raw input as video id.
C17_UnrecognisedInputPassedThrough ==
    [][\A url \in UrlInputs :
          (/\ HandleSubmit(url)
           /\ url # <<>>
           /\ ~isValidYoutubeUrl(url) /\ extractVideoId(url) = url) =>
              (/\ form'.error = ""
               /\ \E c \in calls' \ calls :
                      c.owner = "submit" /\ c.arg = Text(url))]_vars

\* C18: extractVideoId applied to an 11-character id X behind any of the
\* shapes youtube.com/watch?v=, youtube.com/embed/, youtu.be/, or to the
\* bare X, returns X.
C18_ExtractVideoIdShapes ==
    extraction.done => extraction.id = extraction.x

\* C18 witness: the id was extracted from an embed URL.
C18_Witness ==
    /\ extraction.done
    /\ extraction.pre = LitYoutubeCom \o LitEmbed
    /\ Len(extraction.x) = IdLen
    /\ extraction.id = extraction.x

\* C19: bullet_points content with bullets and no sections renders the
\* flat branch, with neither the raw JSON; for every format, content whose
\* sections lack the list the branch reads renders the raw JSON; and
\* copyContent never fails.
C19_BranchesDegradeToRawJson ==
    LET v == resultView.video
        r == resultView.rendered
    IN  /\ r # NotRendered =>
              (/\ (v.output_format = "bullet_points" /\ ~v.hasSections /\ v.bullets)
                      => r.branch = "flat"
               /\ (v.output_format = "bullet_points" /\ ~v.hasSections /\ ~v.bullets)
                      => r.branch = "raw-json"
               /\ LacksSectionList(v) => r.branch = "raw-json")
        /\ resultView.copied # "TypeError"

\* C20: every step in which the view processes a failed response ends with
\* the job's error as the message shown, or with the generic fallback when
\* the response carries none, whatever the view processed before.
C20_FailedJobMessageSurfaced ==
    [][\A c \in calls :
          (/\ Poll(c) /\ c.status = HttpOk /\ BodyParsed(c)
           /\ view'.job.status = "failed") =>
              Surfaced(view') = IF view'.job.error # Null THEN view'.job.error
                                ELSE MsgUnknown]_vars

\* The owners that are operations of the session store.
StoreOwners == {"initialize", "loginWithToken", "loginDevelopment"}

\* C21: every step that changes the persisted token is a step of a session
\* store operation: logout(), or the settling of the request of
\* initialize() or of a login.
C21_OnlyStoreWritesToken ==
    [][token' # token =>
          (\/ LogoutStart
           \/ \E c \in calls : c.owner \in StoreOwners /\ Settles(c))]_vars

\* C24: once the job-status view has been torn down, no step assigns
\* window.location.href.
C24_NoRedirectAfterTeardown ==
    [][view.life = "destroyed" => navs' = navs]_vars

----------------------------------------------------------------------------
(* The Gateway that knows about page unloads: fetchWithAuth with the       *)
(* isNavigating flag set by the beforeunload listener.                     *)

\* isNavigating: beforeunload has been dispatched, which the assignment to
\* window.location.href causes.
isNavigating == navs # <<>>

\* What reading a property of a null result throws.
MsgNullStatus == "Cannot read properties of null (reading 'status')"
MsgNullJobId == "Cannot read properties of null (reading 'job_id')"

\* The caller's continuation when fetchWithAuth returns null: the store
\* operations take null for the user, checkJobStatus assigns job = null and
\* throws at status.status into its own catch block, handleSubmit throws at
\* result.job_id into its catch block.
ReturnsNull(c, tok1) ==
    /\ CASE c.owner = "initialize" -> InitializeSettled(TRUE, Null, tok1)
         [] c.owner \in {"loginWithToken", "loginDevelopment"} ->
                LoginSettled(c, TRUE, Null, tok1)
         [] c.owner \in {"pollMount", "pollTick"} ->
                LET v1 == CheckJobStatusFailed([view EXCEPT !.job = NoJob],
                                               MsgNullStatus)
                IN  /\ view' = IF c.owner = "pollMount" THEN SetInterval(v1) ELSE v1
                    /\ token' = tok1
                    /\ UNCHANGED <<grace, store, outcome, form>>
         [] c.owner = "submit" -> HandleSubmitSettled(FALSE, MsgNullJobId, tok1)
    /\ guard' = GuardAfter(c)
    /\ Gotos(<<>>, c.owner \in StoreOwners)

\* The catch block while navigating: whatever was thrown, return null.
SettlesNull(c, phase) ==
    /\ pageAlive
    /\ c \in calls /\ c.phase = phase
    /\ calls' = calls \ {c}
    /\ ReturnsNull(c, token)
    /\ UNCHANGED <<booted, nextId, logoutPc, navs, pageAlive, extraction,
                   resultView>>

\* fetch() resolves.  A 401 while navigating removes the token and does not
\* throw: the response goes on to the !response.ok branch, which reads the
\* body.
RespondNavigating(c, status) ==
    IF isNavigating /\ status = HttpUnauthorized /\ browser
    THEN /\ pageAlive
         /\ c \in calls /\ c.phase = "fetch"
         /\ calls' = (calls \ {c}) \cup {[c EXCEPT !.phase = "body", !.status = status]}
         /\ token' = NoToken
         /\ UNCHANGED <<store, outcome, view, grace, form, guard, gotos>>
         /\ UNCHANGED <<booted, nextId, logoutPc, navs, pageAlive, extraction,
                        resultView>>
    ELSE Respond(c, status)

\* fetch() rejects.
NetworkFailNavigating(c) ==
    IF isNavigating THEN SettlesNull(c, "fetch") ELSE NetworkFail(c)

\* The timer fires: if (!isNavigating) controller.abort().
TimeoutNavigating(c) == ~isNavigating /\ Timeout(c)

\* response.json() resolves: the data of a 2xx answer is returned, the
\* Error thrown for another status is swallowed while navigating.
BodyParsedNavigating(c) ==
    IF isNavigating /\ c.status # HttpOk THEN SettlesNull(c, "body") ELSE BodyParsed(c)

\* response.json() rejects.
BodyUnparseableNavigating(c) ==
    IF isNavigating THEN SettlesNull(c, "body") ELSE BodyUnparseable(c)

GatewayNavigatingNext ==
    \/ \E c \in calls, status \in Statuses : RespondNavigating(c, status)
    \/ \E c \in calls : NetworkFailNavigating(c)
    \/ \E c \in calls : TimeoutNavigating(c)
    \/ \E c \in calls : BodyParsedNavigating(c)
    \/ \E c \in calls : BodyUnparseableNavigating(c)

\* The job-status page over the Gateway that knows about page unloads.
RaceNext == ImportInitialize \/ JobViewNext \/ GatewayNavigatingNext

SpecRace == Init /\ [][RaceNext]_vars

\* C22: while a navigation away is in progress, a step that settles a status
\* request leaves the error shown by the job-status view as it was.
C22_NavigationRaceSurfacesNoError ==
    [][\A c \in calls :
          (isNavigating /\ Poll(c) /\ Settles(c)) => view'.error = view.error]_vars

----------------------------------------------------------------------------
(* The session store over the authApi that has loginWithFirebase and       *)
(* loginForDevelopment (POST /firebase/verify-token).                      *)

AuthApiFirebase ==
    {"loginWithFirebase", "loginForDevelopment", "getProfile", "handleOAuthCallback"}

\* auth.loginWithToken(accessToken), as the OAuth success page calls it.
LoginWithTokenFirebase(tok) ==
    LoginVia(AuthApiFirebase, "loginWithToken", "loginWithFirebase", tok,
             MsgNoLoginWithFirebase)

LoginNext ==
    \/ ImportInitialize
    \/ \E tok \in Tokens : LoginWithTokenFirebase(tok)
    \/ GatewayNext

SpecLogin == Init /\ [][LoginNext]_vars

\* C23: when loginWithToken(newToken) was the last operation to settle and
\* it succeeded (the store is authenticated, newToken is persisted), the
\* settling of a profile request of initialize() that was still in flight
\* leaves the store authenticated and newToken persisted.
C23_StaleInitializeKeepsLogin ==
    [][\A c \in calls :
          (/\ outcome = [op |-> "loginWithToken", via |-> "resolved", raised |-> FALSE]
           /\ store.authenticated /\ token \in Tokens
           /\ c.owner = "initialize" /\ Settles(c))
          => (store'.authenticated /\ token' = token)]_vars

\* C25: every step that takes the store into loading = true leaves it with
\* error = null.
C25_LoadingStartsWithoutError ==
    [][(~store.loading /\ store'.loading) => store'.error = Null]_vars

\* C26: in every reachable state, a store with a non-null error is not
\* authenticated.
C26_ErrorImpliesUnauthenticated ==
    store.error # Null => ~store.authenticated

\* C28: when logout() was the last operation to settle and the store is
\* unauthenticated, a step makes the store authenticated only by settling
\* the request of a login operation.
C28_LogoutStaysLoggedOut ==
    [][(/\ outcome = [op |-> "logout", via |-> "resolved", raised |-> FALSE]
        /\ ~store.authenticated /\ store'.authenticated)
       => \E c \in calls :
              c.owner \in {"loginWithToken", "loginDevelopment"} /\ Settles(c)]_vars

----------------------------------------------------------------------------
(* Timers: a timer that is armed and not cleared fires while the page is   *)
(* alive.                                                                  *)

\* The timeout timer of each pending fetchWithAuth fires unless cleared.
SpecJobTimeoutFair ==
    /\ Init /\ [][JobNext]_vars
    /\ \A id \in 1..MaxCalls : WF_vars(\E c \in calls : c.id = id /\ Timeout(c))

\* The redirect timer armed by checkJobStatus fires.
SpecJobGraceFair ==
    /\ Init /\ [][JobNext]_vars
    /\ WF_vars(\E g \in grace : GraceFire(g))

\* C27: every Gateway call that is pending is eventually settled, unless
\* the page is unloaded.
C27_EveryCallSettles ==
    \A id \in 1..MaxCalls :
        (\E c \in calls : c.id = id) ~> (~pageAlive \/ \A c \in calls : c.id # id)

C30_CompletedLeadsToResultView ==
    /\ \A vid \in {b.video_id : b \in JobBodies} :
           (\E g \in grace : g.vid = vid) ~> (\E i \in 1..Len(navs) : navs[i] = vid)
    /\ [](\A i \in 1..Len(navs) : navs[i] \in {b.video_id : b \in JobBodies})

C30_Witness ==
    /\ view.life = "mounted" /\ view.error = Null
    /\ view.job.status = "completed"
    /\ navs = <<view.job.video_id>>

====
